---- MODULE Spec2Model ----
(***************************************************************************)
(* Model of the NEXAR home page (src/src/pages/HomePage.tsx): the view     *)
(* state held by the HomePage component, the two asynchronous fetch        *)
(* handlers loadListings and handleCategoryClick with their awaits, the    *)
(* user actions that start them, and the pure mapping formatListing.       *)
(***************************************************************************)
EXTENDS Integers, Sequences, FiniteSets, TLC

(* ----------------------------- bounds --------------------------------- *)
\* most handler invocations in flight at once
MaxCalls == 2
\* most handler invocations started in one behaviour
MaxIssued == 2
\* longest answer of the featured query
MaxFeaturedRows == 5
\* longest answer of the unfiltered and of the category query
MaxRows == 11
\* the featured answers start at row 1..MaxStart of the listings table
MaxStart == 2
\* most successive applications of formatListing to one record
MaxApply == 3

(* ------------------------ JavaScript values --------------------------- *)
\* a property read of an object that lacks the property yields undefined
Undefined == "undefined"

Get(obj, key) == IF key \in DOMAIN obj THEN obj[key] ELSE Undefined

\* a state slot holding null is the empty sequence, a value v is <<v>>
Null == <<>>

EmptyRecord == [x \in {} |-> x]

(* --------------------------- raw listings ----------------------------- *)
fallbackImage == "/category-images/fallback.jpg"

TileCategories == {"sport", "touring"}

ImageNames == <<"/img/a.jpg", "/img/b.jpg", "/img/c.jpg">>

\* the columns every listings row carries
BaseRow(id) ==
  [id |-> id,
   title |-> IF id % 2 = 0 THEN "Yamaha R1" ELSE "BMW GS",
   price |-> 1000 * id,
   year |-> 2010 + id,
   mileage |-> 500 * id,
   location |-> IF id % 3 = 0 THEN "Cluj" ELSE "Bucuresti",
   seller_name |-> IF id % 2 = 0 THEN "Moto SRL" ELSE "Ion",
   seller_id |-> IF id % 2 = 0 THEN "p-dealer" ELSE "p-ion",
   seller_type |-> IF id % 2 = 0 THEN "dealer" ELSE "individual",
   category |-> IF id % 4 = 0 THEN "touring" ELSE "sport",
   brand |-> IF id % 2 = 0 THEN "Yamaha" ELSE "BMW",
   model |-> IF id % 2 = 0 THEN "R1" ELSE "GS"]

\* the optional columns: images (absent, empty, one, two entries)
ImagesPart(k) ==
  CASE k % 4 = 0 -> EmptyRecord
    [] k % 4 = 1 -> [images |-> <<>>]
    [] k % 4 = 2 -> [images |-> <<ImageNames[1]>>]
    [] OTHER     -> [images |-> <<ImageNames[2], ImageNames[3]>>]

\* featured (absent, true, false)
FeaturedPart(k) ==
  CASE k % 3 = 0 -> EmptyRecord
    [] k % 3 = 1 -> [featured |-> TRUE]
    [] OTHER     -> [featured |-> FALSE]

\* availability (absent, or one of the two values the column admits)
AvailabilityPart(k) ==
  CASE k % 3 = 0 -> [availability |-> "la_comanda"]
    [] k % 3 = 1 -> EmptyRecord
    [] OTHER     -> [availability |-> "pe_stoc"]

\* row id of the listings table as the data source returns it
Row(id) ==
  BaseRow(id) @@ ImagesPart(id) @@ FeaturedPart(id + (id \div 3)) @@ AvailabilityPart(id + (id \div 4))

\* n consecutive rows of the table starting at row a
Window(a, n) == [i \in 1..n |-> Row(a + i - 1)]

\* every shape of raw record formatListing is applied to
RawRecords ==
  { BaseRow(id) @@ ImagesPart(i) @@ FeaturedPart(f) @@ AvailabilityPart(a) :
      id \in 1..2, i \in 0..3, f \in 0..2, a \in 0..2 }

(* --------------------------- formatListing ---------------------------- *)
\* listing.images && listing.images.length > 0 ? listing.images[0] : fallbackImage
CoverImage(listing) ==
  IF "images" \in DOMAIN listing /\ Len(listing.images) > 0
    THEN listing.images[1]
    ELSE fallbackImage

formatListingSwapped(listing) ==
  [id |-> Get(listing, "id"),
   title |-> Get(listing, "title"),
   price |-> Get(listing, "price"),
   year |-> Get(listing, "mileage"),
   mileage |-> Get(listing, "year"),
   location |-> Get(listing, "location"),
   image |-> CoverImage(listing),
   seller |-> Get(listing, "seller_name"),
   sellerId |-> Get(listing, "seller_id"),
   sellerType |-> Get(listing, "seller_type"),
   category |-> Get(listing, "category"),
   brand |-> Get(listing, "brand"),
   model |-> Get(listing, "model"),
   featured |-> ("featured" \in DOMAIN listing /\ listing.featured),
   availability |-> IF "availability" \in DOMAIN listing /\ listing.availability # ""
                      THEN listing.availability ELSE "pe_stoc"]

formatListingNoLengthCheck(listing) ==
  [formatListingSwapped(listing) EXCEPT
     !.year = Get(listing, "year"),
     !.mileage = Get(listing, "mileage"),
     !.image = IF "images" \in DOMAIN listing
                 THEN (IF Len(listing.images) > 0 THEN listing.images[1] ELSE Undefined)
                 ELSE fallbackImage]

formatListing(listing) ==
  [id |-> Get(listing, "id"),
   title |-> Get(listing, "title"),
   price |-> Get(listing, "price"),
   year |-> Get(listing, "year"),
   mileage |-> Get(listing, "mileage"),
   location |-> Get(listing, "location"),
   image |-> CoverImage(listing),
   seller |-> Get(listing, "seller_name"),
   sellerId |-> Get(listing, "seller_id"),
   sellerType |-> Get(listing, "seller_type"),
   category |-> Get(listing, "category"),
   brand |-> Get(listing, "brand"),
   model |-> Get(listing, "model"),
   featured |-> ("featured" \in DOMAIN listing /\ listing.featured),
   availability |-> IF "availability" \in DOMAIN listing /\ listing.availability # ""
                      THEN listing.availability ELSE "pe_stoc"]

(* ----------------------- data source answers -------------------------- *)
\* error messages are sequences of words; String.includes(w) is membership
Includes(message, w) == \E i \in DOMAIN message : message[i] = w

\* the failures listings.getAll reports or throws: objects with a message
\* string, and objects without a message property
Failures ==
  { [message |-> <<"Failed", "to", "fetch">>],
    [message |-> <<"network", "timeout">>],
    [message |-> <<"permission", "denied">>],
    [code |-> "PGRST301"] }

NoFailure == [code |-> "none"]

\* { data, error: null }, { data: null, error: null }, { data: null, error }
\* and a rejected promise
DataAnswer(rows) == [kind |-> "data", rows |-> rows, failure |-> NoFailure]
NullAnswer == [kind |-> "null", rows |-> <<>>, failure |-> NoFailure]
ErrorAnswer(f) == [kind |-> "error", rows |-> <<>>, failure |-> f]
ThrowAnswer(f) == [kind |-> "throw", rows |-> <<>>, failure |-> f]

FailureAnswers == {ErrorAnswer(f) : f \in Failures} \cup {ThrowAnswer(f) : f \in Failures}

\* answers of listings.getAll({ featured: true })
FeaturedAnswers ==
  {DataAnswer(Window(a, n)) : a \in 1..MaxStart,
                               n \in (MaxFeaturedRows - 1)..MaxFeaturedRows}
    \cup {NullAnswer} \cup FailureAnswers

\* answers of listings.getAll()
RecentAnswers ==
  {DataAnswer(Window(MaxStart + 1, n)) : n \in (MaxRows - 1)..MaxRows}
    \cup {NullAnswer} \cup FailureAnswers

\* answers of listings.getAll({ category })
CategoryAnswers(c) ==
  {DataAnswer(SelectSeq(Window(1, n), LAMBDA row : row.category = c)) :
     n \in (MaxRows - 1)..MaxRows}
    \cup {NullAnswer} \cup FailureAnswers

\* (data || [])
OrEmpty(answer) == IF answer.kind = "data" THEN answer.rows ELSE <<>>

(* ------------------------ array operations ---------------------------- *)
\* Array.prototype.slice(0, n)
Slice(arr, n) == SubSeq(arr, 1, IF Len(arr) < n THEN Len(arr) ELSE n)

\* Array.prototype.map(formatListing)
MapFormat(arr) == [i \in DOMAIN arr |-> formatListing(arr[i])]

(* ------------------------ results of a fetch -------------------------- *)
FeaturedLimit == 4
RecentLimit == 8

formattedFeaturedAll(featuredRows) == MapFormat(featuredRows)

\* (featuredData || []).slice(0, 4).map(formatListing)
formattedFeatured(featuredRows) == MapFormat(Slice(featuredRows, FeaturedLimit))

formattedRecentUnfiltered(shownFeatured, recentRows) ==
  MapFormat(Slice(recentRows, RecentLimit))

\* (recentData || []).filter(l => !formattedFeatured.some(f => f.id === l.id))
\*                    .slice(0, 8).map(formatListing)
formattedRecent(shownFeatured, recentRows) ==
  MapFormat(Slice(SelectSeq(recentRows,
                            LAMBDA l : ~ \E i \in DOMAIN shownFeatured : shownFeatured[i].id = l.id),
                  RecentLimit))

formattedListingsCapped(rows) == MapFormat(Slice(rows, RecentLimit))

\* (data || []).map(formatListing)
formattedListings(rows) == MapFormat(rows)

categoryFeaturedKept(rows) ==
  MapFormat(Slice(SelectSeq(rows, LAMBDA l : "featured" \in DOMAIN l /\ l.featured), FeaturedLimit))

\* setFeaturedListings([]) of handleCategoryClick
categoryFeatured(rows) == <<>>

(* --------------------- classification of failures --------------------- *)
OptIncludesUnguarded(failure, w) ==
  IF "message" \notin DOMAIN failure THEN "TypeError"
  ELSE IF Includes(failure.message, w) THEN "true" ELSE "false"

\* failure.message?.includes(w): undefined when there is no message
OptIncludes(failure, w) ==
  IF "message" \notin DOMAIN failure THEN Undefined
  ELSE IF Includes(failure.message, w) THEN "true" ELSE "false"

ClassifyNetworkOnly(failure) ==
  IF OptIncludes(failure, "network") = "true" THEN "network" ELSE "application"

\* message?.includes('fetch') || message?.includes('network')
Classify(failure) ==
  IF OptIncludes(failure, "fetch") = "TypeError" THEN "TypeError"
  ELSE IF OptIncludes(failure, "fetch") = "true" THEN "network"
  ELSE IF OptIncludes(failure, "network") = "TypeError" THEN "TypeError"
  ELSE IF OptIncludes(failure, "network") = "true" THEN "network"
  ELSE "application"

\* the TypeError a failed call of includes raises inside the try block
IncludesTypeError == [message |-> <<"includes", "is", "not", "a", "function">>]

\* the localized messages handed to setError
ErrorText(at, category, thrown) ==
  IF thrown
    THEN (IF at = "category"
            THEN <<"A aparut o eroare la filtrarea dupa categoria", category>>
            ELSE <<"A aparut o eroare la incarcarea anunturilor", "">>)
    ELSE CASE at = "featured" -> <<"Nu s-au putut incarca anunturile recomandate", "">>
           [] at = "recent"   -> <<"Nu s-au putut incarca anunturile recente", "">>
           [] OTHER           -> <<"Nu s-au putut incarca anunturile din categoria", category>>

(* ------------------------------ state --------------------------------- *)
VARIABLES
  featuredListings,  \* useState<any[]>([])
  recentListings,    \* useState<any[]>([])
  isLoading,         \* useState(true)
  error,             \* useState<string | null>(null)
  networkError,      \* useState<any>(null)
  locationSearch,    \* the categorie parameter of location.search, "" if none
  mounted,           \* whether the mount effect has run
  calls,             \* the invocations of the two handlers suspended at an await, oldest first
  issued,            \* number of handler invocations started so far
  latestOk,          \* whether the invocation started last has completed successfully
  unhandled,         \* whether a handler's promise was rejected
  lastStep,          \* the step taken last, with the answer it consumed
  fmtArg,            \* the record formatListing is applied to
  fmtRes,            \* the results of the successive applications
  scenario,          \* the two answers the data source gives in the fixed scenario
  authUsers,         \* the rows of auth.users
  profilesTable,     \* the rows of the profiles table
  listingsTable,     \* the rows of the listings table
  lastRequest        \* the database request made last, with its outcome

viewVars == <<featuredListings, recentListings, isLoading, error, networkError>>
fmtVars == <<fmtArg, fmtRes>>
dbVars == <<authUsers, profilesTable, listingsTable, lastRequest>>
sideVars == <<scenario, authUsers, profilesTable, listingsTable, lastRequest>>
vars == <<featuredListings, recentListings, isLoading, error, networkError,
          locationSearch, mounted, calls, issued, latestOk, unhandled, lastStep,
          fmtArg, fmtRes, scenario, authUsers, profilesTable, listingsTable, lastRequest>>

NoScenario == [featured |-> <<>>, recent |-> <<>>]

NoRequest == [op |-> "none"]

\* the database and the scenario as the view model leaves them: untouched
SideInit ==
  /\ scenario = NoScenario
  /\ authUsers = {}
  /\ profilesTable = {}
  /\ listingsTable = {}
  /\ lastRequest = NoRequest

NoStep ==
  [op |-> "init", trigger |-> "", fn |-> "", category |-> "", at |-> "", seq |-> 0,
   overlapped |-> FALSE, answer |-> NullAnswer, featuredRows |-> <<>>]

Init ==
  /\ featuredListings = <<>>
  /\ recentListings = <<>>
  /\ isLoading = TRUE
  /\ error = Null
  /\ networkError = Null
  /\ locationSearch \in {""} \cup TileCategories
  /\ mounted = FALSE
  /\ calls = <<>>
  /\ issued = 0
  /\ latestOk = FALSE
  /\ unhandled = FALSE
  /\ lastStep = NoStep
  /\ fmtArg = Row(1)
  /\ fmtRes = <<>>
  /\ SideInit

(* ----------------------- starting a handler --------------------------- *)
\* the position of the first await of each handler
FirstAwait(fn) == IF fn = "loadListings" THEN "featured" ELSE "category"

errorKeptAtStart(e) == e

\* setError(null) / setNetworkError(null) at the head of both handlers
errorAtStart(e) == Null

callsCancelledAtStart(cs, c) == <<c>>

\* earlier invocations stay suspended at their awaits: nothing cancels them
callsAtStart(cs, c) ==
  Append([i \in DOMAIN cs |-> [cs[i] EXCEPT !.overlapped = TRUE]], c)

Start(fn, category, trigger) ==
  /\ Len(calls) < MaxCalls
  /\ issued < MaxIssued
  /\ isLoading' = TRUE
  /\ error' = errorAtStart(error)
  /\ networkError' = errorAtStart(networkError)
  /\ calls' = callsAtStart(calls,
                [fn |-> fn, category |-> category, at |-> FirstAwait(fn),
                 featuredRows |-> <<>>, seq |-> issued + 1, overlapped |-> calls # <<>>])
  /\ issued' = issued + 1
  /\ latestOk' = FALSE
  /\ lastStep' = [NoStep EXCEPT !.op = "start", !.trigger = trigger, !.fn = fn,
                                !.category = category, !.at = FirstAwait(fn),
                                !.seq = issued + 1, !.overlapped = (calls # <<>>)]
  /\ UNCHANGED <<featuredListings, recentListings, unhandled, fmtVars, sideVars>>

\* useEffect(() => { ... }, [location.search])
EffectBody(search, trigger) ==
  IF search # ""
    THEN Start("handleCategoryClick", search, trigger)
    ELSE Start("loadListings", "", trigger)

\* first run of the effect, after the first render
Mount ==
  /\ ~ mounted
  /\ mounted' = TRUE
  /\ UNCHANGED locationSearch
  /\ EffectBody(locationSearch, "mount")

\* location.search changes: the effect runs again
LocationChange ==
  /\ mounted
  /\ \E search \in ({""} \cup TileCategories) \ {locationSearch} :
        /\ locationSearch' = search
        /\ EffectBody(search, "location")
  /\ UNCHANGED mounted

\* onClick of a category tile; the tiles are not rendered in the network error view
CategoryTileClick ==
  /\ mounted
  /\ networkError = Null
  /\ \E category \in TileCategories : Start("handleCategoryClick", category, "tile")
  /\ UNCHANGED <<locationSearch, mounted>>

\* onClick={loadListings} of the button shown when !isLoading && error
RetryError ==
  /\ mounted
  /\ networkError = Null
  /\ ~ isLoading
  /\ error # Null
  /\ Start("loadListings", "", "retryError")
  /\ UNCHANGED <<locationSearch, mounted>>

\* onRetry={loadListings} of NetworkErrorHandler, rendered when networkError is set
RetryNetwork ==
  /\ mounted
  /\ networkError # Null
  /\ Start("loadListings", "", "retryNetwork")
  /\ UNCHANGED <<locationSearch, mounted>>

(* ---------------------- resuming after an await ----------------------- *)
Remove(cs, i) == [j \in 1..(Len(cs) - 1) |-> IF j < i THEN cs[j] ELSE cs[j + 1]]

IsFailure(answer) == answer.kind \in {"error", "throw"}

\* what the if (error) { ... } branch and the catch block do with a failure:
\* which of the two error states is set, to what, and whether the handler's
\* promise is rejected because the catch block itself threw
FailureOutcome(at, category, answer) ==
  LET cls == Classify(answer.failure) IN
  IF answer.kind = "error"
    THEN CASE cls = "network"     -> [sets |-> "networkError", value |-> <<answer.failure>>]
           [] cls = "application" -> [sets |-> "error", value |-> ErrorText(at, category, FALSE)]
           [] OTHER               ->
                \* the TypeError is thrown inside try and lands in the catch block
                IF Classify(IncludesTypeError) = "network"
                  THEN [sets |-> "networkError", value |-> <<IncludesTypeError>>]
                  ELSE [sets |-> "error", value |-> ErrorText(at, category, TRUE)]
    ELSE CASE cls = "network"     -> [sets |-> "networkError", value |-> <<answer.failure>>]
           [] cls = "application" -> [sets |-> "error", value |-> ErrorText(at, category, TRUE)]
           [] OTHER               -> [sets |-> "rejected", value |-> Null]

\* an answer that is a failure: one error state is set, finally clears isLoading
Fail(i, answer) ==
  LET c == calls[i]
      out == FailureOutcome(c.at, c.category, answer) IN
  /\ error' = IF out.sets = "error" THEN out.value ELSE error
  /\ networkError' = IF out.sets = "networkError" THEN out.value ELSE networkError
  /\ unhandled' = (unhandled \/ out.sets = "rejected")
  /\ isLoading' = FALSE
  /\ calls' = Remove(calls, i)
  /\ lastStep' = [NoStep EXCEPT !.op = "fail", !.fn = c.fn, !.category = c.category,
                                !.at = c.at, !.seq = c.seq, !.overlapped = c.overlapped,
                                !.answer = answer, !.featuredRows = c.featuredRows]
  /\ UNCHANGED <<featuredListings, recentListings, locationSearch, mounted, issued,
                 latestOk, fmtVars, sideVars>>

featuredStoredAfterFirstQuery(current, featuredRows) == formattedFeatured(featuredRows)

\* between the two awaits of loadListings nothing is handed to setFeaturedListings
featuredAfterFirstQuery(current, featuredRows) == current

\* await listings.getAll({ featured: true }) of loadListings resumes
FeaturedResumes(i, answer) ==
    /\ calls[i].at = "featured"
    /\ IF IsFailure(answer)
         THEN Fail(i, answer)
         ELSE /\ calls' = [calls EXCEPT ![i].at = "recent",
                                        ![i].featuredRows = OrEmpty(answer)]
              /\ featuredListings' = featuredAfterFirstQuery(featuredListings, OrEmpty(answer))
              /\ lastStep' = [NoStep EXCEPT !.op = "featuredOk", !.fn = calls[i].fn,
                                !.at = "featured", !.seq = calls[i].seq,
                                !.overlapped = calls[i].overlapped,
                                !.answer = answer, !.featuredRows = OrEmpty(answer)]
              /\ UNCHANGED <<recentListings, isLoading, error, networkError,
                             locationSearch, mounted, issued, latestOk, unhandled, fmtVars, sideVars>>

FeaturedAnswered ==
  \E i \in DOMAIN calls : \E answer \in FeaturedAnswers : FeaturedResumes(i, answer)

\* a handler ran to its end: its results are stored, finally clears isLoading
Succeed(i, answer, newFeatured, newRecent) ==
  LET c == calls[i] IN
  /\ featuredListings' = newFeatured
  /\ recentListings' = newRecent
  /\ isLoading' = FALSE
  /\ calls' = Remove(calls, i)
  /\ latestOk' = (latestOk \/ c.seq = issued)
  /\ lastStep' = [NoStep EXCEPT !.op = "ok", !.fn = c.fn, !.category = c.category,
                                !.at = c.at, !.seq = c.seq, !.overlapped = c.overlapped,
                                !.answer = answer, !.featuredRows = c.featuredRows]
  /\ UNCHANGED <<error, networkError, locationSearch, mounted, issued, unhandled, fmtVars, sideVars>>

\* await listings.getAll() of loadListings resumes
RecentResumes(i, answer) ==
    /\ calls[i].at = "recent"
    /\ IF IsFailure(answer)
         THEN Fail(i, answer)
         ELSE Succeed(i, answer,
                      formattedFeatured(calls[i].featuredRows),
                      formattedRecent(formattedFeatured(calls[i].featuredRows), OrEmpty(answer)))

RecentAnswered ==
  \E i \in DOMAIN calls : \E answer \in RecentAnswers : RecentResumes(i, answer)

\* await listings.getAll({ category }) of handleCategoryClick resumes
CategoryAnswered ==
  \E i \in DOMAIN calls : \E answer \in CategoryAnswers(calls[i].category) :
    /\ calls[i].at = "category"
    /\ IF IsFailure(answer)
         THEN Fail(i, answer)
         ELSE Succeed(i, answer, categoryFeatured(OrEmpty(answer)), formattedListings(OrEmpty(answer)))

Next ==
  \/ Mount
  \/ LocationChange
  \/ CategoryTileClick
  \/ RetryError
  \/ RetryNetwork
  \/ FeaturedAnswered
  \/ RecentAnswered
  \/ CategoryAnswered

Spec == Init /\ [][Next]_vars

(* ------------- formatListing applied to bounded inputs ---------------- *)
InitFormat ==
  /\ featuredListings = <<>>
  /\ recentListings = <<>>
  /\ isLoading = TRUE
  /\ error = Null
  /\ networkError = Null
  /\ locationSearch = ""
  /\ mounted = FALSE
  /\ calls = <<>>
  /\ issued = 0
  /\ latestOk = FALSE
  /\ unhandled = FALSE
  /\ lastStep = NoStep
  /\ fmtArg \in RawRecords
  /\ fmtRes = <<>>
  /\ SideInit

\* formatListing applied to the record, then to its own result
ApplyFormat ==
  /\ Len(fmtRes) < MaxApply
  /\ fmtRes' = Append(fmtRes, formatListing(IF fmtRes = <<>> THEN fmtArg ELSE fmtRes[Len(fmtRes)]))
  /\ UNCHANGED <<featuredListings, recentListings, isLoading, error, networkError,
                 locationSearch, mounted, calls, issued, latestOk, unhandled, lastStep, fmtArg,
                 sideVars>>

NextFormat == ApplyFormat

SpecFormat == InitFormat /\ [][NextFormat]_vars

(* ------------- the landing load on the fixed scenario ----------------- *)
\* the unfiltered answer of the scenario: the rows 6..13 in order, with the
\* rows a and b of the featured answer put at the positions p and q
ScenarioRecent(a, b, p, q) ==
  [k \in 1..10 |->
     IF k = p THEN Row(a)
     ELSE IF k = q THEN Row(b)
     ELSE Row(5 + k - (IF k > p THEN 1 ELSE 0) - (IF k > q THEN 1 ELSE 0))]

\* 5 featured rows, 10 unfiltered rows of which 2 carry featured ids
Scenarios ==
  { [featured |-> Window(1, 5), recent |-> ScenarioRecent(ids[1], ids[2], pos[1], pos[2])] :
      ids \in {x \in (1..5) \X (1..5) : x[1] # x[2]},
      pos \in {y \in (1..10) \X (1..10) : y[1] # y[2]} }

InitScenario ==
  /\ featuredListings = <<>>
  /\ recentListings = <<>>
  /\ isLoading = TRUE
  /\ error = Null
  /\ networkError = Null
  /\ locationSearch = ""
  /\ mounted = FALSE
  /\ calls = <<>>
  /\ issued = 0
  /\ latestOk = FALSE
  /\ unhandled = FALSE
  /\ lastStep = NoStep
  /\ fmtArg = Row(1)
  /\ fmtRes = <<>>
  /\ scenario \in Scenarios
  /\ authUsers = {}
  /\ profilesTable = {}
  /\ listingsTable = {}
  /\ lastRequest = NoRequest

\* the featured query answers with the scenario's 5 rows
ScenarioFeaturedAnswered ==
  \E i \in DOMAIN calls : FeaturedResumes(i, DataAnswer(scenario.featured))

\* the unfiltered query answers with the scenario's 10 rows
ScenarioRecentAnswered ==
  \E i \in DOMAIN calls : RecentResumes(i, DataAnswer(scenario.recent))

NextScenario ==
  \/ Mount
  \/ ScenarioFeaturedAnswered
  \/ ScenarioRecentAnswered

SpecScenario == InitScenario /\ [][NextScenario]_vars

(* ------------- row level security of the listings table --------------- *)
\* most rows the listings table holds
MaxListings == 2

\* SQL NULL, for auth.uid() and auth.email() of a caller without a session
SqlNull == "NULL"
NoUid == 0

\* a comparison with NULL is not true
SqlEq(a, b) == a # SqlNull /\ b # SqlNull /\ a = b

AdminEmail == "admin@nexar.ro"

\* the callers: the anonymous one and four signed-in accounts
Anon  == [uid |-> NoUid, email |-> SqlNull]
Ana   == [uid |-> 1, email |-> "ana@example.ro"]
Dan   == [uid |-> 2, email |-> "dan@example.ro"]
Admin == [uid |-> 3, email |-> AdminEmail]
Eve   == [uid |-> 4, email |-> "eve@example.ro"]

Callers == {Anon, Ana, Dan, Admin, Eve}

\* the profiles of Ana, Dan and the administrator; Eve's was never created
RlsProfiles ==
  { [id |-> 11, user_id |-> 1, email |-> "ana@example.ro"],
    [id |-> 12, user_id |-> 2, email |-> "dan@example.ro"],
    [id |-> 13, user_id |-> 3, email |-> AdminEmail] }

SellerIds == {11, 12}
Statuses == {"active", "draft"}

\* SELECT id FROM profiles WHERE user_id = auth.uid() LIMIT 1
OwnProfileIds(caller) ==
  LET ids == {p.id : p \in {q \in profilesTable : q.user_id = caller.uid}} IN
  IF ids = {} THEN {} ELSE {CHOOSE x \in ids : TRUE}

\* listings_select_active
listings_select_active(caller, row) == row.status = "active"

listings_select_own_by_uid(caller, row) ==
  caller.uid # NoUid /\ row.seller_id = caller.uid

\* listings_select_own
listings_select_own(caller, row) ==
  caller.uid # NoUid /\ row.seller_id \in OwnProfileIds(caller)

\* admin_select_all_listings
admin_select_all_listings(caller, row) == SqlEq(caller.email, AdminEmail)

\* listings_insert_authenticated
listings_insert_authenticated(caller, row) == caller.uid # NoUid

listings_update_authenticated(caller, row) == caller.uid # NoUid

\* listings_update_own
listings_update_own(caller, row) ==
  caller.uid # NoUid /\ row.seller_id \in OwnProfileIds(caller)

\* listings_delete_own
listings_delete_own(caller, row) ==
  caller.uid # NoUid /\ row.seller_id \in OwnProfileIds(caller)

\* admin_update_all_listings
admin_update_all_listings(caller, row) == SqlEq(caller.email, AdminEmail)

\* admin_delete_all_listings
admin_delete_all_listings(caller, row) == SqlEq(caller.email, AdminEmail)

\* the permissive policies of one command are combined with OR
MaySelect(caller, row) ==
  \/ listings_select_active(caller, row)
  \/ listings_select_own(caller, row)
  \/ admin_select_all_listings(caller, row)

MayInsert(caller, row) == listings_insert_authenticated(caller, row)

MayUpdate(caller, row) ==
  \/ listings_update_own(caller, row)
  \/ admin_update_all_listings(caller, row)

MayDelete(caller, row) ==
  \/ listings_delete_own(caller, row)
  \/ admin_delete_all_listings(caller, row)

InitRls ==
  /\ featuredListings = <<>>
  /\ recentListings = <<>>
  /\ isLoading = TRUE
  /\ error = Null
  /\ networkError = Null
  /\ locationSearch = ""
  /\ mounted = FALSE
  /\ calls = <<>>
  /\ issued = 0
  /\ latestOk = FALSE
  /\ unhandled = FALSE
  /\ lastStep = NoStep
  /\ fmtArg = Row(1)
  /\ fmtRes = <<>>
  /\ scenario = NoScenario
  /\ authUsers = {Ana, Dan, Admin, Eve}
  /\ profilesTable = RlsProfiles
  /\ listingsTable = {}
  /\ lastRequest = NoRequest

RlsUnchanged ==
  UNCHANGED <<featuredListings, recentListings, isLoading, error, networkError,
              locationSearch, mounted, calls, issued, latestOk, unhandled, lastStep,
              fmtArg, fmtRes, scenario, authUsers, profilesTable>>

\* what the last request was, what it saw and what the table held before it
Request(op, caller, target, row, done) ==
  [op |-> op, caller |-> caller, target |-> target, row |-> row, done |-> done,
   visible |-> {r \in listingsTable : MaySelect(caller, r)},
   before |-> listingsTable]

NoRow == [id |-> 0, seller_id |-> 0, status |-> ""]

\* SELECT * FROM listings: the rows a SELECT policy admits
SelectListings ==
  \E caller \in Callers :
    /\ lastRequest' = Request("select", caller, 0, NoRow, TRUE)
    /\ UNCHANGED listingsTable
    /\ RlsUnchanged

\* INSERT INTO listings: rejected unless the new row passes WITH CHECK
InsertListing ==
  \E caller \in Callers, seller \in SellerIds, status \in Statuses :
    \E id \in 1..MaxListings :
      LET row == [id |-> id, seller_id |-> seller, status |-> status] IN
      /\ \A r \in listingsTable : r.id # id
      /\ listingsTable' = IF MayInsert(caller, row) THEN listingsTable \cup {row}
                                                    ELSE listingsTable
      /\ lastRequest' = Request("insert", caller, id, row, MayInsert(caller, row))
      /\ RlsUnchanged

\* UPDATE listings SET seller_id, status WHERE id: the row is touched when it
\* is visible and passes USING; the new row must pass the same expression
UpdateListing ==
  \E caller \in Callers, old \in listingsTable, seller \in SellerIds, status \in Statuses :
    LET new == [id |-> old.id, seller_id |-> seller, status |-> status]
        applies == MaySelect(caller, old) /\ MayUpdate(caller, old) /\ MayUpdate(caller, new) IN
    /\ listingsTable' = IF applies THEN (listingsTable \ {old}) \cup {new} ELSE listingsTable
    /\ lastRequest' = Request("update", caller, old.id, new, applies)
    /\ RlsUnchanged

\* DELETE FROM listings WHERE id: the row goes when it is visible and passes USING
DeleteListing ==
  \E caller \in Callers, old \in listingsTable :
    LET applies == MaySelect(caller, old) /\ MayDelete(caller, old) IN
    /\ listingsTable' = IF applies THEN listingsTable \ {old} ELSE listingsTable
    /\ lastRequest' = Request("delete", caller, old.id, old, applies)
    /\ RlsUnchanged

NextRls ==
  \/ SelectListings
  \/ InsertListing
  \/ UpdateListing
  \/ DeleteListing

SpecRls == InitRls /\ [][NextRls]_vars

(* ------------------- provisioning of a profile at signup -------------- *)
\* most accounts created
MaxAccounts == 2

\* an email address as its parts around the '@'
SignupEmails == {<<"ana", "example.ro">>, <<"admin", "nexar.ro">>}

\* split_part(email, '@', n)
split_part(email, n) == email[n]

\* raw_user_meta_data: a key that is absent reads as NULL through ->>
MetaKeys == {"name", "phone", "location", "sellerType"}
MetaGiven == [name |-> "Ana Pop", phone |-> "0712", location |-> "Cluj", sellerType |-> "dealer"]
SignupMetas ==
  { [k \in MetaKeys |-> IF k \in given THEN MetaGiven[k] ELSE SqlNull] : given \in SUBSET MetaKeys }

COALESCE(a, b) == IF a # SqlNull THEN a ELSE b

\* the row the trigger function inserts; its id is generated by the table
ProfileOf(newUser) ==
  [id          |-> 10 + newUser.id,
   user_id     |-> newUser.id,
   name        |-> COALESCE(newUser.raw_user_meta_data["name"], split_part(newUser.email, 1)),
   email       |-> newUser.email,
   phone       |-> COALESCE(newUser.raw_user_meta_data["phone"], ""),
   location    |-> COALESCE(newUser.raw_user_meta_data["location"], ""),
   seller_type |-> COALESCE(newUser.raw_user_meta_data["sellerType"], "individual"),
   is_admin    |-> newUser.email = <<"admin", "nexar.ro">>,
   verified    |-> FALSE]

handle_new_user_unhandled(newUser, raises) ==
  [result   |-> IF raises THEN "error" ELSE "NEW",
   inserted |-> IF raises THEN {} ELSE {ProfileOf(newUser)},
   warning  |-> FALSE]

\* handle_new_user: raises tells whether the INSERT statement raised; the
\* handler turns any error into a warning and returns NEW all the same
handle_new_user(newUser, raises) ==
  [result   |-> "NEW",
   inserted |-> IF raises THEN {} ELSE {ProfileOf(newUser)},
   warning  |-> raises]

InitSignup ==
  /\ featuredListings = <<>>
  /\ recentListings = <<>>
  /\ isLoading = TRUE
  /\ error = Null
  /\ networkError = Null
  /\ locationSearch = ""
  /\ mounted = FALSE
  /\ calls = <<>>
  /\ issued = 0
  /\ latestOk = FALSE
  /\ unhandled = FALSE
  /\ lastStep = NoStep
  /\ fmtArg = Row(1)
  /\ fmtRes = <<>>
  /\ SideInit

\* INSERT INTO auth.users, with the trigger on_auth_user_created AFTER INSERT:
\* the account row stays only if the trigger function returns
SignUp ==
  \E email \in SignupEmails, meta \in SignupMetas, raises \in BOOLEAN :
    LET newUser == [id |-> Cardinality(authUsers) + 1, email |-> email,
                raw_user_meta_data |-> meta]
        out == handle_new_user(newUser, raises) IN
    /\ Cardinality(authUsers) < MaxAccounts
    /\ authUsers' = IF out.result = "NEW" THEN authUsers \cup {newUser} ELSE authUsers
    /\ profilesTable' = IF out.result = "NEW" THEN profilesTable \cup out.inserted
                                              ELSE profilesTable
    /\ lastRequest' = [op |-> "signup", account |-> newUser, raised |-> raises,
                       warning |-> out.warning]
    /\ UNCHANGED <<featuredListings, recentListings, isLoading, error, networkError,
                   locationSearch, mounted, calls, issued, latestOk, unhandled,
                   lastStep, fmtArg, fmtRes, scenario, listingsTable>>

NextSignup == SignUp

SpecSignup == InitSignup /\ [][NextSignup]_vars

(* ============================ properties ============================== *)
Min(a, b) == IF a < b THEN a ELSE b

Ids(listings) == {listings[i].id : i \in DOMAIN listings}

FinishedOk(fn) == lastStep.op = "ok" /\ lastStep.fn = fn

\* C1: after loadListings completes successfully the featured set shown is
\* the first 4 records of the featured answer, formatted and in order, and the
\* recent set shown has at most 8 entries, none with an id of the featured set.
C1_LandingSubsets ==
  FinishedOk("loadListings") =>
    /\ Len(featuredListings) <= 4
    /\ Len(featuredListings) = Min(4, Len(lastStep.featuredRows))
    /\ \A i \in DOMAIN featuredListings :
          featuredListings[i] = formatListing(lastStep.featuredRows[i])
    /\ Len(recentListings) <= 8
    /\ Ids(recentListings) \cap Ids(featuredListings) = {}

\* a landing load whose featured answer has more than 4 rows and whose
\* unfiltered answer repeats featured ids and keeps more than 8 other rows
C1_Witness ==
  /\ FinishedOk("loadListings")
  /\ Len(lastStep.featuredRows) > 4
  /\ Ids(lastStep.answer.rows) \cap Ids(featuredListings) # {}
  /\ Cardinality(Ids(lastStep.answer.rows) \ Ids(featuredListings)) > 8
  /\ Len(recentListings) = 8

IsConnectivity(failure) ==
  /\ "message" \in DOMAIN failure
  /\ \E i \in DOMAIN failure.message : failure.message[i] \in {"fetch", "network"}

\* C3 as stated: every failed fetch whose message contains "fetch" or
\* "network" ends with networkError set and error null, every other failed
\* fetch with error set and networkError null.
C3_Original ==
  lastStep.op = "fail" =>
    IF IsConnectivity(lastStep.answer.failure)
      THEN networkError = <<lastStep.answer.failure>> /\ error = Null
      ELSE error # Null /\ networkError = Null

\* C3 amended: the failed fetch sets the error state its message selects; the
\* other error state is null when no other fetch was in flight alongside it.
C3_Classification ==
  lastStep.op = "fail" =>
    IF IsConnectivity(lastStep.answer.failure)
      THEN /\ networkError = <<lastStep.answer.failure>>
           /\ ~ lastStep.overlapped => error = Null
      ELSE /\ error # Null
           /\ error[2] = lastStep.category
           /\ ~ lastStep.overlapped => networkError = Null

\* a failure without connectivity words in an overlapped fetch, ending with
\* both error states set
C3_Witness ==
  /\ lastStep.op = "fail"
  /\ ~ IsConnectivity(lastStep.answer.failure)
  /\ lastStep.overlapped
  /\ error # Null
  /\ networkError # Null

\* C4: every start of a handler ends with isLoading true and both error
\* states null, the new invocation waiting at its first query.
C4_StartClears ==
  lastStep.op = "start" =>
    /\ isLoading
    /\ error = Null
    /\ networkError = Null
    /\ calls # <<>>
    /\ calls[Len(calls)].seq = lastStep.seq
    /\ calls[Len(calls)].at = (IF lastStep.fn = "loadListings" THEN "featured" ELSE "category")
    /\ calls[Len(calls)].featuredRows = <<>>

\* a retry from the network error view has just started loadListings
C4_Witness ==
  /\ lastStep.op = "start"
  /\ lastStep.trigger = "retryNetwork"
  /\ isLoading
  /\ networkError = Null

\* C5: only the successful end of a handler writes the two sets: the answer
\* of the featured query alone stores nothing, and a failure stores nothing.
C5_NoPartialSuccess ==
  [][lastStep'.op # "ok" => UNCHANGED <<featuredListings, recentListings>>]_vars

\* the featured query answered with rows, the recent query failed, and the
\* featured set is still the empty one of construction
C5_Witness ==
  /\ lastStep.op = "fail"
  /\ lastStep.at = "recent"
  /\ lastStep.featuredRows # <<>>
  /\ lastStep.seq = 1
  /\ featuredListings = <<>>

\* C6: a finished fetch has left the awaits, isLoading is false, no promise
\* was rejected, and a failed fetch has set exactly one of the error states.
C6_FetchEnds ==
  /\ ~ unhandled
  /\ \A i \in DOMAIN calls : calls[i].at \in {"featured", "recent", "category"}
  /\ lastStep.op \in {"ok", "fail"} =>
       /\ ~ isLoading
       /\ \A i \in DOMAIN calls : calls[i].seq # lastStep.seq
  /\ lastStep.op = "fail" =>
       (networkError = <<lastStep.answer.failure>>) # (error # Null /\ error[2] = lastStep.category
                                                        /\ ~ IsConnectivity(lastStep.answer.failure))

\* a thrown failure without a message was caught
C6_Witness ==
  /\ lastStep.op = "fail"
  /\ lastStep.answer.kind = "throw"
  /\ "message" \notin DOMAIN lastStep.answer.failure
  /\ error # Null
  /\ ~ isLoading

\* C7 as stated: a retry right after a failed fetch starts the handler, and
\* the category, of the fetch that failed.
C7_RetrySameEntry ==
  [][(lastStep.op = "fail" /\ lastStep'.op = "start"
        /\ lastStep'.trigger \in {"retryError", "retryNetwork"})
       => (lastStep'.fn = lastStep.fn /\ lastStep'.category = lastStep.category)]_vars

\* what the successful end of the last step's handler stores
ShowsLastStep ==
  IF lastStep.fn = "loadListings"
    THEN /\ featuredListings = MapFormat(SubSeq(lastStep.featuredRows, 1,
                                                Min(4, Len(lastStep.featuredRows))))
         /\ Ids(recentListings) \subseteq Ids(OrEmpty(lastStep.answer))
    ELSE /\ featuredListings = <<>>
         /\ Ids(recentListings) = Ids(OrEmpty(lastStep.answer))

\* C8: a start leaves the earlier invocations suspended, and the answer of
\* an earlier invocation that arrives after the latest one completed is
\* still stored.
C8_StaleOverwrites ==
  /\ (lastStep.op = "start" /\ lastStep.overlapped) =>
        /\ Len(calls) >= 2
        /\ \A i \in 1..(Len(calls) - 1) : calls[i].seq < lastStep.seq
  /\ (lastStep.op = "ok" /\ lastStep.seq < issued /\ latestOk) => ShowsLastStep

\* the landing load started first finished after the category fetch started
\* last had completed, and its listings are the ones shown
C8_Witness ==
  /\ lastStep.op = "ok"
  /\ lastStep.fn = "loadListings"
  /\ lastStep.seq < issued
  /\ latestOk
  /\ calls = <<>>
  /\ featuredListings # <<>>
  /\ ShowsLastStep

DisplayFields ==
  {"id", "title", "price", "year", "mileage", "location", "image", "seller", "sellerId",
   "sellerType", "category", "brand", "model", "featured", "availability"}

\* C9: formatListing maps every raw record to a display record; absent or
\* empty images give the fallback image, absent availability "pe_stoc", absent
\* featured false; the first image and present values pass through.
C9_FormatDefaults ==
  Len(fmtRes) >= 1 =>
    LET d == fmtRes[1] IN
    /\ DOMAIN d = DisplayFields
    /\ d.image = (IF "images" \in DOMAIN fmtArg /\ fmtArg.images # <<>>
                    THEN Head(fmtArg.images) ELSE fallbackImage)
    /\ d.availability = (IF "availability" \in DOMAIN fmtArg
                           THEN fmtArg.availability ELSE "pe_stoc")
    /\ d.featured = (IF "featured" \in DOMAIN fmtArg THEN fmtArg.featured ELSE FALSE)

\* a record with an empty image sequence and neither availability nor featured
C9_Witness ==
  /\ Len(fmtRes) >= 1
  /\ "images" \in DOMAIN fmtArg /\ fmtArg.images = <<>>
  /\ "availability" \notin DOMAIN fmtArg
  /\ "featured" \notin DOMAIN fmtArg
  /\ fmtRes[1].image = fallbackImage

\* C10 as stated: formatListing(formatListing(r)) = formatListing(r).
C10_Original ==
  Len(fmtRes) >= 2 => fmtRes[2] = fmtRes[1]

KeptFields ==
  {"id", "title", "price", "year", "mileage", "location", "category", "brand", "model",
   "featured", "availability"}

\* C10 amended: a second application keeps id, title, price, year, mileage,
\* location, category, brand, model, featured and availability, resets the
\* image to the fallback image and loses seller, sellerId and sellerType; a
\* third application changes nothing more.
C10_SecondApplication ==
  /\ Len(fmtRes) >= 2 =>
       /\ \A k \in KeptFields : fmtRes[2][k] = fmtRes[1][k]
       /\ fmtRes[2].image = fallbackImage
       /\ fmtRes[2].seller = Undefined
       /\ fmtRes[2].sellerId = Undefined
       /\ fmtRes[2].sellerType = Undefined
  /\ Len(fmtRes) >= 3 => fmtRes[3] = fmtRes[2]

\* a record with a cover image formatted twice
C10_Witness ==
  /\ Len(fmtRes) >= 2
  /\ fmtRes[1].image # fallbackImage
  /\ fmtRes[2].image = fallbackImage

\* the ids both scenario answers carry
SharedIds == Ids(scenario.recent) \cap Ids(scenario.featured)

\* the ids of the featured rows the landing view shows
ShownIds == {scenario.featured[i].id : i \in 1..4}

\* the unfiltered rows, in answer order, whose id is not shown as featured
Candidates == SelectSeq(scenario.recent, LAMBDA l : l.id \notin ShownIds)

\* C11 as stated: in the scenario the featured set shown is the first 4 of
\* the 5 and the recent set shown is exactly the 8 rows whose ids are not
\* among the featured ones, whichever featured ids the 2 shared rows carry.
C11_Original ==
  FinishedOk("loadListings") =>
    /\ featuredListings = MapFormat(SubSeq(scenario.featured, 1, 4))
    /\ Len(recentListings) = 8
    /\ Ids(recentListings) = Ids(scenario.recent) \ Ids(scenario.featured)

\* C11 amended: the featured set shown is the first 4 of the 5; the recent
\* set shown is the first 8, in answer order, of the unfiltered rows whose ids
\* are not among the 4 shown featured ids. It is exactly the 8 rows without a
\* featured id when both shared rows carry ids of the first 4; when one carries
\* the id of the fifth, nine rows remain and the last of them is cut.
C11_Scenario ==
  FinishedOk("loadListings") =>
    /\ featuredListings = MapFormat(SubSeq(scenario.featured, 1, 4))
    /\ Len(recentListings) = 8
    /\ \A i \in 1..8 : recentListings[i] = formatListing(Candidates[i])
    /\ SharedIds \subseteq ShownIds =>
         Ids(recentListings) = Ids(scenario.recent) \ Ids(scenario.featured)
    /\ ~ (SharedIds \subseteq ShownIds) =>
         /\ Len(Candidates) = 9
         /\ Ids(recentListings) = Ids(Candidates) \ {Candidates[9].id}

\* the scenario with the shared rows carrying the ids of the first and the
\* fourth featured row: the 8 other rows are shown
C11_Witness ==
  /\ FinishedOk("loadListings")
  /\ SharedIds = {1, 4}
  /\ Len(featuredListings) = 4
  /\ Ids(recentListings) = 6..13

\* C15 as stated: in every reachable state of the view, overlapping fetches
\* included, error and networkError are never both set.
C15_ErrorStatesExclusive ==
  ~ (error # Null /\ networkError # Null)

\* C16 as stated: isLoading is true in every reachable state in which a
\* fetch is still in flight.
C16_LoadingWhileInFlight ==
  calls # <<>> => isLoading

Authenticated(caller) == caller \in authUsers

\* the row's seller is the profile of the caller
Owns(caller, row) ==
  \E p \in profilesTable : p.user_id = caller.uid /\ p.id = row.seller_id

IsAdministrator(caller) == caller.email = "admin@nexar.ro"

\* C12: a listing row is readable by a caller if and only if it is active, or
\* the caller is authenticated and the row's seller is the caller's profile,
\* or the caller has the administrative email; so an unauthenticated caller
\* reads no non-active row and an authenticated non-admin caller reads no
\* non-active row of another seller.
C12_ReadAuthorization ==
  lastRequest.op = "select" =>
    LET c == lastRequest.caller IN
    /\ lastRequest.visible \subseteq listingsTable
    /\ \A r \in listingsTable :
         r \in lastRequest.visible <=>
           \/ r.status = "active"
           \/ Authenticated(c) /\ Owns(c, r)
           \/ IsAdministrator(c)
    /\ ~ Authenticated(c) => \A r \in lastRequest.visible : r.status = "active"
    /\ Authenticated(c) /\ ~ IsAdministrator(c) =>
         \A r \in lastRequest.visible : r.status = "active" \/ Owns(c, r)

\* Ana reads her own draft and not Dan's
C12_Witness ==
  /\ lastRequest.op = "select"
  /\ lastRequest.caller = Ana
  /\ \E r \in lastRequest.visible : r.status = "draft" /\ r.seller_id = 11
  /\ \E r \in listingsTable \ lastRequest.visible : r.seller_id = 12

\* the row a request was aimed at, as it was before the request
TargetBefore == CHOOSE r \in lastRequest.before : r.id = lastRequest.target

\* C13: an authenticated caller may insert a listing and an unauthenticated
\* one may not; an update or delete takes effect only for the owner of the
\* row or the administrator, so a request of any other caller leaves every
\* listing unchanged and present.
C13_WriteAuthorization ==
  LET c == lastRequest.caller IN
  /\ lastRequest.op = "insert" =>
       /\ lastRequest.done <=> Authenticated(c)
       /\ listingsTable = IF Authenticated(c) THEN lastRequest.before \cup {lastRequest.row}
                                              ELSE lastRequest.before
  /\ lastRequest.op \in {"update", "delete"} =>
       /\ lastRequest.done => Owns(c, TargetBefore) \/ IsAdministrator(c)
       /\ ~ Owns(c, TargetBefore) /\ ~ IsAdministrator(c) => listingsTable = lastRequest.before
       /\ ~ lastRequest.done => listingsTable = lastRequest.before

\* Dan asked to change a listing of Ana and nothing happened
C13_Witness ==
  /\ lastRequest.op = "update"
  /\ lastRequest.caller = Dan
  /\ TargetBefore.seller_id = 11
  /\ lastRequest.row # TargetBefore
  /\ ~ lastRequest.done
  /\ listingsTable = lastRequest.before

(* --------------------------- provisioning ----------------------------- *)
\* the profiles provisioned for an account
ProfilesFor(account) == {p \in profilesTable : p.user_id = account.id}

\* a metadata field, or the given default when the metadata omits it
MetaOr(account, key, default) ==
  IF account.raw_user_meta_data[key] = "NULL" THEN default
  ELSE account.raw_user_meta_data[key]

\* C14: the account is created whether or not the profile insert succeeds (a
\* failure leaves a warning and no profile), and metadata that omits fields
\* yields a profile with phone "" and location "", seller type 'individual',
\* the name taken from the local part of the email, and verified false.
C14_ProvisioningNeverFails ==
  lastRequest.op = "signup" =>
    LET a == lastRequest.account IN
    /\ a \in authUsers
    /\ lastRequest.raised => ProfilesFor(a) = {} /\ lastRequest.warning
    /\ ~ lastRequest.raised =>
         /\ Cardinality(ProfilesFor(a)) = 1
         /\ \A p \in ProfilesFor(a) :
              /\ p.phone = MetaOr(a, "phone", "")
              /\ p.location = MetaOr(a, "location", "")
              /\ p.seller_type = MetaOr(a, "sellerType", "individual")
              /\ p.name = MetaOr(a, "name", a.email[1])
              /\ p.verified = FALSE

\* an account whose profile insert failed exists, and the account created
\* after it without phone and location got a profile with both empty
C14_Witness ==
  /\ lastRequest.op = "signup"
  /\ ~ lastRequest.raised
  /\ lastRequest.account.raw_user_meta_data["phone"] = "NULL"
  /\ lastRequest.account.raw_user_meta_data["location"] = "NULL"
  /\ \E p \in ProfilesFor(lastRequest.account) : p.phone = "" /\ p.location = ""
  /\ \E a \in authUsers : ProfilesFor(a) = {}

====
